---- MODULE Spec2Model ----
(***************************************************************************)
(* Session-authenticated access control and audit core of the file-sharing *)
(* platform: the sessions, users, files, settings and logs tables of       *)
(* lib/db.ts, the upload directory on disk, and the server actions and the *)
(* file-serving route that read and write them.                            *)
(***************************************************************************)
EXTENDS Integers, Sequences, FiniteSets, TLC

(* ------------------------------ bounds -------------------------------- *)
\* users.id is AUTOINCREMENT: ids 1..MaxUserId are handed out, never reused
MaxUserId == 4
\* number of session tokens createSession draws in one run
MaxToken == 3
\* files.id is AUTOINCREMENT
MaxFileId == 2
\* number of stored filenames uploadFile generates in one run
MaxStoredName == 2
\* steps that insert log rows are taken while logs holds fewer rows
MaxLog == 1
\* the clock stops here (minutes since 00:00 UTC of day 0)
MaxNow == 1440
\* uploads between fs.writeFile and the metadata insert, deletions between
\* the row delete and fs.unlink
MaxInFlight == 1
\* as MaxLog, for the steps of NextLedger
MaxLedgerLog == 2
\* as MaxLog, for the steps of NextRoles
MaxRoleLog == 4
\* as MaxLog, for the steps of NextSession
MaxSessionLog == 3

(* ----------------------------- constants ------------------------------ *)
\* SQL NULL / JS null in an id column (ids start at 1)
NULL == 0
NoToken == 0
MinutesPerDay == 24 * 60
HalfDay == 12 * 60
MB == 1024 * 1024
SeedAdminId == 1

Tokens == 1..MaxToken
UserIds == 1..MaxUserId
FileIds == 1..MaxFileId
Usernames == {"AdminUser", "alice", "bob"}
Passwords == {"adminpassword", "secret"}
Roles == {"user", "admin"}
Statuses == {"active", "inactive"}
Visibilities == {"private", "public"}
Extensions == {"pdf", "exe"}
FileSizes == {MB + 1, 10 * MB + 1}

\* the default settings rows of seedData
DefaultAllowedFileTypes ==
    {"jpg", "jpeg", "png", "gif", "webp", "pdf", "txt", "doc", "docx", "xls",
     "xlsx", "ppt", "pptx", "zip", "rar", "7z"}
DefaultSettings ==
    [fileSizeLimitMB |-> 10, storageQuotaMB |-> 500,
     allowedFileTypes |-> DefaultAllowedFileTypes,
     maintenanceMode |-> "false", sessionTimeoutMinutes |-> 30]

(* --------------------------- dates as text ---------------------------- *)
\* Date.toISOString(): "YYYY-MM-DDTHH:MM:SS.sssZ"; the date, the separator
\* character and the time of day, compared left to right as SQLite compares
\* TEXT values
toISOString(t) == <<t \div MinutesPerDay, "T", t % MinutesPerDay>>
\* SQLite CURRENT_TIMESTAMP: "YYYY-MM-DD HH:MM:SS"
CURRENT_TIMESTAMP(t) == <<t \div MinutesPerDay, " ", t % MinutesPerDay>>
\* new Date(text).getTime()
ParseDate(s) == s[1] * MinutesPerDay + s[3]
\* code points of the two separator characters
CharCode(c) == IF c = "T" THEN 84 ELSE 32
\* a > b for two TEXT values under SQLite's BINARY collation (memcmp)
TextGreater(a, b) ==
    \/ a[1] > b[1]
    \/ a[1] = b[1] /\ CharCode(a[2]) > CharCode(b[2])
    \/ a[1] = b[1] /\ CharCode(a[2]) = CharCode(b[2]) /\ a[3] > b[3]

(* ------------------------------- paths -------------------------------- *)
DotDot == <<".", ".">>
UploadsSeg == <<"u", "p", "l", "o", "a", "d", "s">>
SiblingSeg == <<"u", "p", "l", "o", "a", "d", "s", "2">>
DatabaseSeg == <<"d", "a", "t", "a", "b", "a", "s", "e">>
DbFileSeg == <<"s", "e", "c", "u", "r", "e", "_", "s", "h", "a", "r", "e", ".", "d", "b">>
\* process.cwd()
Cwd == << <<"a", "p", "p">> >>
Digits == <<"1", "2", "3", "4", "5", "6", "7", "8", "9">>
\* `${Date.now()}-${uniqueSuffix}-${safeFilename}`: the n-th generated name
StoredName(n) == <<"f", Digits[n]>>

RECURSIVE NormalizeFrom(_, _)
\* path.normalize / path.join on a relative path: ".." removes the segment
\* before it, and stays when there is none to remove
NormalizeFrom(done, rest) ==
    IF rest = <<>> THEN done
    ELSE IF Head(rest) = DotDot
         THEN IF done # <<>> /\ done[Len(done)] # DotDot
              THEN NormalizeFrom(SubSeq(done, 1, Len(done) - 1), Tail(rest))
              ELSE NormalizeFrom(Append(done, DotDot), Tail(rest))
         ELSE NormalizeFrom(Append(done, Head(rest)), Tail(rest))
Normalize(segs) == NormalizeFrom(<<>>, segs)

RECURSIVE ResolveFrom(_, _)
\* path.resolve on an absolute base: ".." at the root is dropped
ResolveFrom(done, rest) ==
    IF rest = <<>> THEN done
    ELSE IF Head(rest) = DotDot
         THEN ResolveFrom(IF done = <<>> THEN done ELSE SubSeq(done, 1, Len(done) - 1),
                          Tail(rest))
         ELSE ResolveFrom(Append(done, Head(rest)), Tail(rest))
\* path.resolve(process.cwd(), p), as a list of segments
Resolve(p) == ResolveFrom(Cwd, p)

RECURSIVE PathString(_)
\* the characters of an absolute path: "/" before every segment
PathString(segs) ==
    IF segs = <<>> THEN <<>> ELSE <<"/">> \o Head(segs) \o PathString(Tail(segs))

\* String.prototype.startsWith
startsWith(s, prefix) ==
    Len(prefix) <= Len(s) /\ SubSeq(s, 1, Len(prefix)) = prefix

\* the catch-all route parameter: a stored name, a file of a sibling
\* directory, the database file, a walk above the root
RequestPaths ==
    {<<StoredName(n)>> : n \in 1..MaxStoredName}
        \cup {<<DotDot, SiblingSeg, StoredName(1)>>,
              <<DotDot, DatabaseSeg, DbFileSeg>>}

(* ------------------------------- state -------------------------------- *)
VARIABLES
    users,          \* users table: id -> [username, password_hash, role, status]
    sessions,       \* sessions table: session_id -> [user_id, expires_at]
    files,          \* files table: id -> [ext, size, uploader_id, visibility, path]
    settings,       \* settings table
    logs,           \* logs table, in insertion order
    disk,           \* absolute paths (segment lists) that hold bytes
    now,            \* the clock, minutes
    notifications,  \* the user_id of each notifications row
    serving,        \* the route's reads in flight at await getUserRole
    nextUserId,     \* AUTOINCREMENT of users
    nextToken,      \* tokens drawn so far + 1
    nextFileId,     \* AUTOINCREMENT of files
    nextName,       \* stored names generated so far + 1
    uploading,      \* uploadFile calls awaiting fs.writeFile
    unlinking,      \* deleteFile calls awaiting fs.unlink
    last            \* the request served by the last step and its response

vars == <<users, sessions, files, settings, logs, disk, now, notifications,
          serving, nextUserId,
          nextToken, nextFileId, nextName, uploading, unlinking, last>>

\* crypto sha256 digest, hex: one digest per password
hashPassword(p) == <<"sha256", p>>
\* a digest of another length than a sha256 hex digest, as another scheme
\* leaves it in password_hash
LegacyDigest(p) == <<"md5", p>>
\* the number of hex characters of a digest
DigestLength(h) == IF h[1] = "sha256" THEN 64 ELSE 32
\* crypto.timingSafeEqual throws a RangeError for buffers of different length
timingSafeEqualThrows(a, b) == DigestLength(a) # DigestLength(b)
\* variant: every password verifies
AnyPasswordVerifies(p, storedHash) == TRUE
\* crypto.timingSafeEqual on two digests of equal length
verifyPassword(p, storedHash) == hashPassword(p) = storedHash
\* verifyPassword does not return: timingSafeEqual throws
verifyPasswordThrows(p, storedHash) == timingSafeEqualThrows(hashPassword(p), storedHash)

\* a logs row; details holds what the details text tells beyond the columns
LogEntryWith(uid, action, type, rid, details) ==
    [user_id |-> uid, action |-> action, type |-> type, resource_id |-> rid,
     details |-> details]
LogEntry(uid, action, type, rid) == LogEntryWith(uid, action, type, rid, << >>)

\* a response without file bytes or file info
NoBody == <<>>
ResponseWith(op, uid, role, arg, val, result, body) ==
    [op |-> op, uid |-> uid, role |-> role, arg |-> arg, val |-> val,
     result |-> result, body |-> body]
Response(op, uid, role, arg, val, result) ==
    ResponseWith(op, uid, role, arg, val, result, NoBody)
\* no request is being answered
Idle == Response("idle", NULL, "none", NULL, NULL, "ok")

\* steps are observed one at a time: a handler or the clock steps when the
\* response of the step before has been returned
Ready == last = Idle

\* an address of the one mail domain, by its local part
Email(local) == <<local, "example.com">>
\* seedData: 'admin@example.com'
SeedEmail == Email("admin")
\* the users table at start: the seed admin of seedData and one account
\* registered since; id 3 belonged to an account deleted earlier
InitUsers ==
    (SeedAdminId :> [username |-> "AdminUser", email |-> SeedEmail,
                     password_hash |-> hashPassword("adminpassword"),
                     role |-> "admin", status |-> "active"])
    @@ (2 :> [username |-> "alice", email |-> Email("alice"),
              password_hash |-> hashPassword("secret"),
              role |-> "user", status |-> "active"])
\* the row createSession inserted at minute 0 under the default timeout
InitSession(uid) ==
    [user_id |-> uid, expires_at |-> toISOString(DefaultSettings.sessionTimeoutMinutes)]
\* the row and the bytes uploadFile stored for the first upload
InitFile(owner, visibility) ==
    [ext |-> "pdf", size |-> 10 * MB, uploader_id |-> owner, visibility |-> visibility,
     path |-> <<UploadsSeg, StoredName(1)>>]

\* The database and the upload directory as the process finds them at start
\* (db.ts opens the persisted database and runs seedData): the seed admin,
\* one more account, the session each of the two holds (the token of a user
\* is numbered as the user), at most one uploaded file
\* (of the admin, of alice, or of the deleted account: ON DELETE SET NULL).
\* logs holds the rows inserted since start.
InitWith(accounts) ==
    /\ users = accounts
    /\ sessions = [t \in DOMAIN InitUsers |-> InitSession(t)]
    /\ \/ files = << >> /\ disk = {Resolve(<<DatabaseSeg, DbFileSeg>>)}
       \/ \E owner \in {SeedAdminId, 2, NULL}, v \in Visibilities :
            /\ files = (1 :> InitFile(owner, v))
            /\ disk = {Resolve(<<DatabaseSeg, DbFileSeg>>),
                       Resolve(<<UploadsSeg, StoredName(1)>>)}
    /\ settings = DefaultSettings
    /\ logs = << >>
    /\ now = 0
    /\ notifications = {}
    /\ serving = {}
    /\ nextUserId = 4
    /\ nextToken = 3
    /\ nextFileId = 2
    /\ nextName = 2
    /\ uploading = {}
    /\ unlinking = {}
    /\ last = Idle

Init == InitWith(InitUsers)

(* ------------------------------ the logs ------------------------------ *)
\* INSERT INTO logs, after the rows of table (the logs table, or the logs
\* table after a cascade)
InsertInto(table, rows) == logs' = table \o rows
Insert(rows) == InsertInto(logs, rows)
\* steps that write to logs are taken while the table holds fewer than n rows
Within(n) == logs' = logs \/ Len(logs) < n

(* ------------------------- session resolution ------------------------- *)
\* WHERE session_id = ? AND expires_at > CURRENT_TIMESTAMP
SessionRowLive(tok) ==
    /\ tok \in DOMAIN sessions
    /\ TextGreater(sessions[tok].expires_at, CURRENT_TIMESTAMP(now))

\* files.ts, the route and notifications.ts: the user id of the session row
getUserIdFromSession(tok) ==
    IF tok # NoToken /\ SessionRowLive(tok) THEN sessions[tok].user_id ELSE NULL

\* "no row": the null getUserFromSession returns
NoUser == [id |-> NULL, role |-> "none"]
\* auth/user, logs, settings and chat actions: sessions JOIN users
getUserFromSession(tok) ==
    IF tok # NoToken /\ SessionRowLive(tok) /\ sessions[tok].user_id \in DOMAIN users
    THEN [id |-> sessions[tok].user_id, role |-> users[sessions[tok].user_id].role]
    ELSE NoUser

getUserRole(uid) == IF uid \in DOMAIN users THEN users[uid].role ELSE "none"

\* lib/auth.ts verifySession: what it returns
verifySessionResult(tok) ==
    IF tok = NoToken \/ tok \notin DOMAIN sessions THEN NULL
    ELSE IF ParseDate(sessions[tok].expires_at) < now THEN NULL
    ELSE sessions[tok].user_id

Drop(f, keys) == [k \in DOMAIN f \ keys |-> f[k]]

(* ------------------------------ the clock ----------------------------- *)
Tick(d) ==
    /\ now + d <= MaxNow
    /\ now' = now + d
    /\ last' = Response("tick", NULL, "none", NULL, d, "ok")
    /\ UNCHANGED <<users, sessions, files, settings, logs, disk, notifications,
                   serving, nextUserId,
                   nextToken, nextFileId, nextName, uploading, unlinking>>

(* --------------------------- lib/auth.ts ------------------------------ *)
\* variant: the expiry is computed from the default timeout, not from the
\* settings row
createSessionDefaultTimeout(uid) ==
    [user_id |-> uid,
     expires_at |-> toISOString(now + DefaultSettings.sessionTimeoutMinutes)]
\* the row createSession inserts: expiry = now + sessionTimeoutMinutes
createSession(uid) ==
    [user_id |-> uid,
     expires_at |-> toISOString(now + settings.sessionTimeoutMinutes)]

\* verifySession: an expired row is deleted on lookup
VerifySession(tok) ==
    /\ sessions' = IF /\ tok \in DOMAIN sessions
                      /\ ParseDate(sessions[tok].expires_at) < now
                   THEN Drop(sessions, {tok})
                   ELSE sessions
    /\ last' = Response("verifySession", verifySessionResult(tok), "none", tok, NULL,
                        IF verifySessionResult(tok) = NULL THEN "absent" ELSE "ok")
    /\ UNCHANGED <<users, files, settings, logs, disk, now, notifications, serving, nextUserId,
                   nextToken, nextFileId, nextName, uploading, unlinking>>

(* ------------------------- auth / user actions ------------------------ *)
UserByName(username) == {u \in DOMAIN users : users[u].username = username}
\* SELECT id FROM users WHERE email = ?
UserByEmail(email) == {u \in DOMAIN users : users[u].email = email}

loginUser(username, password) ==
    /\ UNCHANGED <<users, files, settings, disk, now, notifications,
                   serving, nextUserId, nextFileId,
                   nextName, uploading, unlinking>>
    /\ IF UserByName(username) = {}
       THEN /\ Insert(<<LogEntry(NULL, "Login Failure", "auth", NULL)>>)
            /\ last' = Response("loginUser", NULL, "none", username, password,
                                "InvalidCredentials")
            /\ UNCHANGED <<sessions, nextToken>>
       ELSE LET u == CHOOSE x \in UserByName(username) : TRUE
                fail(result) ==
                    /\ Insert(<<LogEntry(u, "Login Failure", "auth", u)>>)
                    /\ last' = Response("loginUser", u, users[u].role, username,
                                        password, result)
                    /\ UNCHANGED <<sessions, nextToken>>
            IN  IF users[u].status # "active" THEN fail("AccountInactive")
                ELSE IF verifyPasswordThrows(password, users[u].password_hash)
                THEN \* the catch block
                     /\ Insert(<<LogEntry(NULL, "Login Error", "system", NULL)>>)
                     /\ last' = Response("loginUser", u, users[u].role, username,
                                         password, "InternalError")
                     /\ UNCHANGED <<sessions, nextToken>>
                ELSE IF ~verifyPassword(password, users[u].password_hash)
                THEN fail("InvalidCredentials")
                ELSE IF settings.maintenanceMode = "true" /\ users[u].role # "admin"
                THEN fail("Maintenance")
                ELSE /\ nextToken <= MaxToken
                     /\ sessions' = sessions @@ (nextToken :> createSession(u))
                     /\ nextToken' = nextToken + 1
                     /\ Insert(<<LogEntry(u, "Login Success", "auth", u)>>)
                     /\ last' = Response("loginUser", u, users[u].role, username,
                                         nextToken, "ok")

logoutUser(tok) ==
    /\ LET sessionData == getUserFromSession(tok)
           userId == sessionData.id
       IN  /\ sessions' = Drop(sessions, {tok})
           /\ Insert(<<LogEntry(userId, "Logout Success", "auth", userId)>>)
           /\ last' = Response("logoutUser", userId, sessionData.role, tok, NULL, "ok")
    /\ UNCHANGED <<users, files, settings, disk, now, notifications,
                   serving, nextUserId, nextToken,
                   nextFileId, nextName, uploading, unlinking>>

\* the first lines of every admin-only action: no session, or not an admin
AdminGate(op, tok, arg, val) ==
    LET adminUser == getUserFromSession(tok)
    IN  /\ adminUser = NoUser \/ adminUser.role # "admin"
        /\ IF adminUser = NoUser
           THEN /\ logs' = logs
                /\ last' = Response(op, NULL, "none", arg, val, "AuthenticationRequired")
           ELSE /\ Insert(<<LogEntry(adminUser.id, "Unauthorized Action",
                                                 "security", adminUser.id)>>)
                /\ last' = Response(op, adminUser.id, adminUser.role, arg, val,
                                    "PermissionDenied")

\* variant: every session passes, whatever the role of its user
AnySessionIsAdmin(tok) ==
    getUserFromSession(tok) # NoUser
\* adminUser && adminUser.role === 'admin'
IsAdmin(tok) ==
    getUserFromSession(tok).role = "admin"

registerUser(tok, username, password, role) ==
    /\ UNCHANGED <<sessions, files, settings, disk, now, notifications,
                   serving, nextToken, nextFileId,
                   nextName, uploading, unlinking>>
    /\ IF ~IsAdmin(tok)
       THEN AdminGate("registerUser", tok, username, role) /\ UNCHANGED <<users, nextUserId>>
       ELSE LET adminUser == getUserFromSession(tok)
            IN  IF UserByName(username) # {} \/ UserByEmail(Email(username)) # {}
                THEN /\ last' = Response("registerUser", adminUser.id, adminUser.role,
                                         username, role, "ValidationError")
                     /\ UNCHANGED <<users, nextUserId, logs>>
                ELSE /\ nextUserId <= MaxUserId
                     /\ users' = users @@ (nextUserId :>
                            [username |-> username, email |-> Email(username),
                             password_hash |-> hashPassword(password),
                             role |-> role, status |-> "active"])
                     /\ nextUserId' = nextUserId + 1
                     /\ Insert(<<LogEntry(adminUser.id, "User Creation",
                                                      "admin", nextUserId)>>)
                     /\ last' = Response("registerUser", adminUser.id, adminUser.role,
                                         nextUserId, role, "ok")

updateUserStatus(tok, targetUserId, status) ==
    /\ UNCHANGED <<sessions, files, settings, disk, now, notifications,
                   serving, nextUserId, nextToken,
                   nextFileId, nextName, uploading, unlinking>>
    /\ IF ~IsAdmin(tok)
       THEN AdminGate("updateUserStatus", tok, targetUserId, status) /\ UNCHANGED users
       ELSE LET adminUser == getUserFromSession(tok)
                reply(result) == Response("updateUserStatus", adminUser.id,
                                          adminUser.role, targetUserId, status, result)
            IN  IF targetUserId = adminUser.id /\ status = "inactive"
                THEN last' = reply("ValidationError") /\ UNCHANGED <<users, logs>>
                ELSE IF targetUserId \notin DOMAIN users
                THEN last' = reply("NotFound") /\ UNCHANGED <<users, logs>>
                ELSE /\ users' = [users EXCEPT ![targetUserId].status = status]
                     /\ Insert(<<LogEntry(adminUser.id,
                            IF status = "active" THEN "User Status Activated"
                            ELSE "User Status Deactivated", "admin", targetUserId)>>)
                     /\ last' = reply("ok")

\* DELETE FROM sessions WHERE user_id = ?
SessionsOfUser(sess, uid) == {t \in DOMAIN sess : sess[t].user_id = uid}
\* DELETE FROM sessions WHERE user_id = ? AND session_id != ?
OtherSessionsOfUser(sess, uid, tok) == SessionsOfUser(sess, uid) \ {tok}

\* variant: the caller's own session is spared, as updateOwnProfile does
ResetSparesCaller(sess, uid, tok) == SessionsOfUser(sess, uid) \ {tok}
\* the sessions resetUserPassword deletes, for the caller's token tok
ResetRevokes(sess, uid, tok) == SessionsOfUser(sess, uid)

resetUserPassword(tok, targetUserId, newPassword) ==
    /\ UNCHANGED <<files, settings, disk, now, notifications, serving, nextUserId, nextToken,
                   nextFileId, nextName, uploading, unlinking>>
    /\ IF ~IsAdmin(tok)
       THEN /\ AdminGate("resetUserPassword", tok, targetUserId, newPassword)
            /\ UNCHANGED <<users, sessions>>
       ELSE LET adminUser == getUserFromSession(tok)
                gone == ResetRevokes(sessions, targetUserId, tok)
            IN  IF targetUserId \notin DOMAIN users
                THEN /\ last' = Response("resetUserPassword", adminUser.id,
                                         adminUser.role, targetUserId, newPassword,
                                         "NotFound")
                     /\ UNCHANGED <<users, sessions, logs>>
                ELSE /\ users' = [users EXCEPT ![targetUserId].password_hash =
                                                 hashPassword(newPassword)]
                     /\ sessions' = Drop(sessions, gone)
                     /\ Insert(<<LogEntry(adminUser.id, "Password Reset",
                                                      "admin", targetUserId)>>
                               \o (IF gone = {} THEN <<>>
                                   ELSE <<LogEntry(adminUser.id, "Session Termination",
                                                   "security", targetUserId)>>))
                     /\ last' = Response("resetUserPassword", adminUser.id,
                                         adminUser.role, targetUserId, newPassword, "ok")

\* variant: only the caller's own role is protected
RefusedOnlyForOwnRole(adminId, targetUserId, role) ==
    targetUserId = adminId /\ role # "admin"
\* updateUserProfile: isChangingOwnRole, isDemotingSeededAdmin
RoleChangeRefused(adminId, targetUserId, role) ==
    \/ targetUserId = adminId /\ role # "admin"
    \/ targetUserId = SeedAdminId /\ role # "admin"

\* UPDATE users SET <the keys of updates> WHERE id = ?
SetColumns(row, updates) ==
    [k \in DOMAIN row |-> IF k \in DOMAIN updates THEN updates[k] ELSE row[k]]
\* SELECT id FROM users WHERE <column> = ? AND id != ?, for a column that changes
InUseByOther(column, updates, targetUserId) ==
    /\ column \in DOMAIN updates
    /\ updates[column] # users[targetUserId][column]
    /\ \E u \in DOMAIN users \ {targetUserId} : users[u][column] = updates[column]

\* updateUserProfile with the optional fields username, email and role given
\* as the record updates; the response tells the role asked for, if any
updateUserProfileWith(tok, targetUserId, updates) ==
    /\ UNCHANGED <<sessions, files, settings, disk, now, notifications,
                   serving, nextUserId, nextToken,
                   nextFileId, nextName, uploading, unlinking>>
    /\ LET role == IF "role" \in DOMAIN updates THEN updates.role ELSE "none"
       IN
       IF ~IsAdmin(tok)
       THEN AdminGate("updateUserProfile", tok, targetUserId, role) /\ UNCHANGED users
       ELSE LET adminUser == getUserFromSession(tok)
                reply(result) == Response("updateUserProfile", adminUser.id,
                                          adminUser.role, targetUserId, role, result)
            IN  IF DOMAIN updates = {}
                THEN last' = reply("ValidationError") /\ UNCHANGED <<users, logs>>
                ELSE IF /\ "role" \in DOMAIN updates
                        /\ RoleChangeRefused(adminUser.id, targetUserId, role)
                THEN last' = reply("ValidationError") /\ UNCHANGED <<users, logs>>
                ELSE IF targetUserId \notin DOMAIN users
                THEN last' = reply("NotFound") /\ UNCHANGED <<users, logs>>
                ELSE IF \/ InUseByOther("username", updates, targetUserId)
                        \/ InUseByOther("email", updates, targetUserId)
                THEN last' = reply("ValidationError") /\ UNCHANGED <<users, logs>>
                ELSE /\ users' = [users EXCEPT
                                     ![targetUserId] = SetColumns(@, updates)]
                     /\ Insert(<<LogEntry(adminUser.id, "Profile Update",
                                                      "admin", targetUserId)>>)
                     /\ last' = reply("ok")

\* updateUserProfile asked to set the role only
updateUserProfile(tok, targetUserId, role) ==
    updateUserProfileWith(tok, targetUserId, [role |-> role])

\* variant: the referencing rows are left as they are (no foreign key action)
LeftAsIs(rows, field, uid) == rows
\* FOREIGN KEY ... ON DELETE SET NULL on files.uploader_id and logs.user_id
SetNull(rows, field, uid) ==
    [k \in DOMAIN rows |->
        IF rows[k][field] = uid THEN [rows[k] EXCEPT ![field] = NULL] ELSE rows[k]]

deleteUser(tok, targetUserId) ==
    /\ UNCHANGED <<settings, disk, now, serving, nextUserId, nextToken, nextFileId,
                   nextName, uploading, unlinking>>
    /\ IF ~IsAdmin(tok)
       THEN /\ AdminGate("deleteUser", tok, targetUserId, NULL)
            /\ UNCHANGED <<users, sessions, notifications, files>>
       ELSE LET adminUser == getUserFromSession(tok)
                reply(result) == Response("deleteUser", adminUser.id, adminUser.role,
                                          targetUserId, NULL, result)
            IN  IF targetUserId = adminUser.id \/ targetUserId = SeedAdminId
                THEN last' = reply("ValidationError")
                     /\ UNCHANGED <<users, sessions, notifications, files, logs>>
                ELSE IF targetUserId \notin DOMAIN users
                THEN last' = reply("NotFound")
                     /\ UNCHANGED <<users, sessions, notifications, files, logs>>
                ELSE /\ sessions' = Drop(sessions, SessionsOfUser(sessions, targetUserId))
                     /\ notifications' = notifications \ {targetUserId}
                     /\ users' = Drop(users, {targetUserId})
                     /\ files' = SetNull(files, "uploader_id", targetUserId)
                     /\ InsertInto(SetNull(logs, "user_id", targetUserId),
                                 <<LogEntry(adminUser.id, "User Deletion", "admin",
                                            targetUserId)>>)
                     /\ last' = reply("ok")

updateOwnProfile(tok, currentPassword, newPassword) ==
    /\ UNCHANGED <<files, settings, disk, now, notifications, serving, nextUserId, nextToken,
                   nextFileId, nextName, uploading, unlinking>>
    /\ LET currentUser == getUserFromSession(tok)
       IN  IF currentUser = NoUser
           THEN /\ last' = Response("updateOwnProfile", NULL, "none", NULL, newPassword,
                                    "AuthenticationRequired")
                /\ UNCHANGED <<users, sessions, logs>>
           ELSE LET userId == currentUser.id
                    gone == OtherSessionsOfUser(sessions, userId, tok)
                    reply(result) == Response("updateOwnProfile", userId,
                                              currentUser.role, userId, newPassword, result)
                IN  IF verifyPasswordThrows(currentPassword, users[userId].password_hash)
                    THEN \* the catch block
                         /\ Insert(<<LogEntry(userId, "Profile Self-Update Error",
                                                          "system", userId)>>)
                         /\ last' = reply("InternalError")
                         /\ UNCHANGED <<users, sessions>>
                    ELSE IF ~verifyPassword(currentPassword, users[userId].password_hash)
                    THEN /\ Insert(<<LogEntry(userId, "Profile Update Failure",
                                                          "security", userId)>>)
                         /\ last' = reply("InvalidCredentials")
                         /\ UNCHANGED <<users, sessions>>
                    ELSE /\ users' = [users EXCEPT ![userId].password_hash =
                                                     hashPassword(newPassword)]
                         /\ sessions' = Drop(sessions, gone)
                         /\ Insert(<<LogEntry(userId, "Profile Self-Update",
                                                          "auth", userId)>>
                                   \o (IF gone = {} THEN <<>>
                                       ELSE <<LogEntry(userId, "Session Termination",
                                                       "security", userId)>>))
                         /\ last' = reply("ok")

(* ------------------------------ settings ------------------------------ *)
\* the values SettingUpdateSchema accepts, a few of each
SettingValues ==
    [fileSizeLimitMB |-> {1, 10},
     storageQuotaMB |-> {10, 500},
     maintenanceMode |-> {"true", "false"}]

updateSettings(tok, key, value) ==
    /\ UNCHANGED <<users, sessions, files, disk, now, notifications,
                   serving, nextUserId, nextToken,
                   nextFileId, nextName, uploading, unlinking>>
    /\ IF ~IsAdmin(tok)
       THEN AdminGate("updateSettings", tok, key, value) /\ UNCHANGED settings
       ELSE LET adminUser == getUserFromSession(tok)
            IN  /\ settings' = [settings EXCEPT ![key] = value]
                /\ IF settings[key] # value
                   THEN Insert(<<LogEntry(adminUser.id, "Setting Change", "admin", NULL)>>)
                   ELSE UNCHANGED logs
                /\ last' = Response("updateSettings", adminUser.id, adminUser.role,
                                    key, value, "ok")

(* ------------------------------ seeding ------------------------------- *)
\* INSERT OR IGNORE INTO settings (key, value)
InsertOrIgnore(table, defaults) ==
    [k \in DOMAIN table \cup DOMAIN defaults |->
        IF k \in DOMAIN table THEN table[k] ELSE defaults[k]]

\* db.transaction(seedData)() as the process starts on the persisted database
seedData ==
    /\ uploading = {} /\ unlinking = {} /\ serving = {}
    /\ UNCHANGED <<sessions, files, disk, now, notifications, serving, nextToken,
                   nextFileId, nextName, uploading, unlinking>>
    /\ LET reply(result) == Response("seedData", NULL, "none", NULL, NULL, result)
           seeded == DOMAIN DefaultSettings \ DOMAIN settings
       IN  IF UserByName("AdminUser") # {}
           THEN /\ settings' = InsertOrIgnore(settings, DefaultSettings)
                /\ IF seeded # {}
                   THEN Insert(<<LogEntry(CHOOSE u \in UserByName("AdminUser") : TRUE,
                                          "Initial Settings Seed", "system", NULL)>>)
                   ELSE UNCHANGED logs
                /\ last' = reply("ok")
                /\ UNCHANGED <<users, nextUserId>>
           ELSE IF UserByEmail(SeedEmail) # {}
           THEN \* the insert fails on UNIQUE (email); seedData returns in its catch
                /\ last' = reply("SeedError")
                /\ UNCHANGED <<users, nextUserId, settings, logs>>
           ELSE /\ nextUserId <= MaxUserId
                /\ users' = users @@ (nextUserId :>
                       [username |-> "AdminUser", email |-> SeedEmail,
                        password_hash |-> hashPassword("adminpassword"),
                        role |-> "admin", status |-> "active"])
                /\ nextUserId' = nextUserId + 1
                /\ settings' = InsertOrIgnore(settings, DefaultSettings)
                /\ Insert(<<LogEntry(nextUserId, "Initial Admin Seed", "system",
                                     nextUserId)>>
                          \o (IF seeded # {}
                              THEN <<LogEntry(nextUserId, "Initial Settings Seed",
                                              "system", NULL)>>
                              ELSE << >>))
                /\ last' = reply("ok")

(* --------------------------- file actions ----------------------------- *)
\* variant: the size is compared with the constant MAX_FILE_SIZE (10 MB)
\* instead of the limit read from the settings row
ExceedsMaxFileSize(size, maxSizeMB) == size > 10 * MB
\* uploadFile: file.size > maxSizeBytes, the limit read from the settings row
ExceedsLimit(size, maxSizeMB) == size > maxSizeMB * MB
\* uploadFile: an empty allow-list allows every extension
ExtensionRejected(ext, allowedExtensions) ==
    allowedExtensions # {} /\ ext \notin allowedExtensions

\* toggleFileVisibility and deleteFile: neither the owner nor an admin
NotOwnerNorAdmin(file, userId, userRole) ==
    file.uploader_id # userId /\ userRole # "admin"
\* variant: only the owner passes, an admin does not
ToggleDeniedForAdminToo(file, userId, userRole) == file.uploader_id # userId
\* toggleFileVisibility's permission check
ToggleDenied(file, userId, userRole) == NotOwnerNorAdmin(file, userId, userRole)
\* variant: the role test is inverted
DeleteDeniedRoleInverted(file, userId, userRole) ==
    file.uploader_id # userId /\ userRole = "admin"
\* deleteFile's permission check
DeleteDenied(file, userId, userRole) == NotOwnerNorAdmin(file, userId, userRole)
\* getDownloadFileInfo, getPreviewFileInfo: a private file of somebody else
InfoDenied(file, userId, userRole) ==
    file.visibility = "private" /\ file.uploader_id # userId /\ userRole # "admin"
\* variant: a NULL uploader_id compares as SQL compares it (never unequal)
RouteDeniedUnlessOwnerNull(fileRecord, userId, userRole) ==
    /\ fileRecord.visibility = "private"
    /\ fileRecord.uploader_id # NULL
    /\ fileRecord.uploader_id # userId
    /\ userRole # "admin"
\* the route's copy of the same check
RouteDenied(fileRecord, userId, userRole) ==
    /\ fileRecord.visibility = "private"
    /\ fileRecord.uploader_id # userId
    /\ userRole # "admin"

FileFrame == UNCHANGED <<users, sessions, settings, now, notifications,
                         serving, nextUserId, nextToken>>

uploadFile(tok, ext, size, visibility) ==
    /\ FileFrame
    /\ UNCHANGED <<files, logs, nextFileId, unlinking>>
    /\ LET userId == getUserIdFromSession(tok)
           relativePath == <<UploadsSeg, StoredName(nextName)>>
           reply(result) == Response("uploadFile", userId, getUserRole(userId),
                                     NULL, <<size, ext, visibility>>, result)
       IN  IF userId = NULL
           THEN last' = reply("AuthenticationRequired")
                /\ UNCHANGED <<disk, nextName, uploading>>
           ELSE IF ExceedsLimit(size, settings.fileSizeLimitMB)
           THEN last' = reply("TooLarge") /\ UNCHANGED <<disk, nextName, uploading>>
           ELSE IF ExtensionRejected(ext, settings.allowedFileTypes)
           THEN last' = reply("TypeNotAllowed")
                /\ UNCHANGED <<disk, nextName, uploading>>
           ELSE /\ Cardinality(uploading) < MaxInFlight
                /\ nextName <= MaxStoredName
                /\ nextFileId + Cardinality(uploading) <= MaxFileId
                \* await fs.writeFile(filePath, fileBuffer)
                /\ disk' = disk \cup {Resolve(relativePath)}
                /\ nextName' = nextName + 1
                /\ uploading' = uploading \cup
                       {[userId |-> userId, ext |-> ext, size |-> size,
                         visibility |-> visibility, path |-> relativePath]}
                /\ last' = reply("writing")

\* the disk after the catch block of uploadFile: it unlinks error.path, which
\* only errors of the fs module carry; a database error has none
DiskAfterFailedInsert(d, filePath) == d

\* uploadFile after fs.writeFile has resolved: the metadata insert and the log
uploadFileInsert(u) ==
    /\ u \in uploading
    /\ uploading' = uploading \ {u}
    /\ FileFrame
    /\ UNCHANGED <<nextName, unlinking>>
    /\ IF u.userId \in DOMAIN users
       THEN /\ files' = files @@ (nextFileId :>
                   [ext |-> u.ext, size |-> u.size, uploader_id |-> u.userId,
                    visibility |-> u.visibility, path |-> u.path])
            /\ nextFileId' = nextFileId + 1
            /\ Insert(<<LogEntry(u.userId, "File Upload", "file", nextFileId)>>)
            /\ last' = ResponseWith("uploadFileInsert", u.userId, getUserRole(u.userId),
                                    nextFileId, <<u.size, u.ext, u.visibility>>, "ok",
                                    u.path)
            /\ UNCHANGED disk
       ELSE \* FOREIGN KEY constraint failed (the uploader was deleted meanwhile);
            \* the log insert of the catch block fails the same way and throws
            /\ disk' = DiskAfterFailedInsert(disk, Resolve(u.path))
            /\ last' = ResponseWith("uploadFileInsert", u.userId, "none", NULL,
                                    <<u.size, u.ext, u.visibility>>, "InternalError",
                                    u.path)
            /\ UNCHANGED <<files, nextFileId, logs>>

\* listFiles: the ids of the rows returned, each as often as it is returned
listFiles(userId, isAdminView) ==
    IF isAdminView /\ getUserRole(userId) = "admin"
    THEN [f \in DOMAIN files |-> 1]
    ELSE [f \in DOMAIN files |->
            (IF files[f].uploader_id = userId THEN 1 ELSE 0)
            \* uploader_id != ? is not true of a NULL uploader_id
          + (IF /\ files[f].visibility = "public"
                /\ files[f].uploader_id # NULL
                /\ files[f].uploader_id # userId THEN 1 ELSE 0)]

\* variant: the update and its log row are written whatever the current value
ToggleNeverNoop(file, newVisibility) == FALSE
\* toggleFileVisibility: file.visibility === newVisibility
ToggleIsNoop(file, newVisibility) == file.visibility = newVisibility

\* variant: the update rewrites the row's owner with the caller as well
UpdateVisibilityAndOwner(rows, fileId, newVisibility, userId) ==
    [rows EXCEPT ![fileId].visibility = newVisibility, ![fileId].uploader_id = userId]
\* UPDATE files SET visibility = ? WHERE id = ?
UpdateVisibility(rows, fileId, newVisibility, userId) ==
    [rows EXCEPT ![fileId].visibility = newVisibility]

toggleFileVisibility(tok, fileId, newVisibility) ==
    /\ FileFrame
    /\ UNCHANGED <<disk, nextFileId, nextName, uploading, unlinking>>
    /\ LET userId == getUserIdFromSession(tok)
           userRole == getUserRole(userId)
           reply(result) == Response("toggleFileVisibility", userId, userRole,
                                     fileId, newVisibility, result)
       IN  IF userId = NULL
           THEN last' = reply("AuthenticationRequired") /\ UNCHANGED <<files, logs>>
           ELSE IF fileId \notin DOMAIN files
           THEN last' = reply("NotFound") /\ UNCHANGED <<files, logs>>
           ELSE IF ToggleDenied(files[fileId], userId, userRole)
           THEN /\ Insert(<<LogEntry(userId, "Unauthorized Action",
                                                 "security", fileId)>>)
                /\ last' = reply("PermissionDenied")
                /\ UNCHANGED files
           ELSE IF ToggleIsNoop(files[fileId], newVisibility)
           THEN last' = reply("ok") /\ UNCHANGED <<files, logs>>
           ELSE /\ files' = UpdateVisibility(files, fileId, newVisibility, userId)
                /\ Insert(<<LogEntryWith(userId, "File Visibility Change", "file", fileId,
                                         <<files[fileId].visibility, newVisibility>>)>>)
                /\ last' = reply("ok")

\* variant: the row is left in the table while the bytes are unlinked
DeleteRecordLater(rows, fileId) == rows
\* deleteTx: DELETE FROM files WHERE id = ?
DeleteRecord(rows, fileId) == Drop(rows, {fileId})

deleteFile(tok, fileId) ==
    /\ FileFrame
    /\ UNCHANGED <<disk, nextFileId, nextName, uploading>>
    /\ LET userId == getUserIdFromSession(tok)
           userRole == getUserRole(userId)
           reply(result) == Response("deleteFile", userId, userRole, fileId, NULL, result)
       IN  IF userId = NULL
           THEN last' = reply("AuthenticationRequired")
                /\ UNCHANGED <<files, logs, unlinking>>
           ELSE IF fileId \notin DOMAIN files
           THEN last' = reply("NotFound") /\ UNCHANGED <<files, logs, unlinking>>
           ELSE IF DeleteDenied(files[fileId], userId, userRole)
           THEN /\ Insert(<<LogEntry(userId, "Unauthorized Action",
                                                 "security", fileId)>>)
                /\ last' = reply("PermissionDenied")
                /\ UNCHANGED <<files, unlinking>>
           ELSE /\ Cardinality(unlinking) < MaxInFlight
                \* deleteTx(), then await fs.unlink(filePath)
                /\ files' = DeleteRecord(files, fileId)
                /\ unlinking' = unlinking \cup
                       {[userId |-> userId, fileId |-> fileId,
                         path |-> files[fileId].path]}
                /\ last' = reply("unlinking")
                /\ UNCHANGED logs

\* deleteFile after fs.unlink has settled: the deletion is logged
deleteFileUnlink(d) ==
    /\ d \in unlinking
    /\ unlinking' = unlinking \ {d}
    /\ FileFrame
    /\ UNCHANGED <<files, nextFileId, nextName, uploading>>
    /\ disk' = disk \ {Resolve(d.path)}
    /\ IF d.userId \in DOMAIN users
       THEN /\ Insert(<<LogEntry(d.userId, "File Deletion", "file", d.fileId)>>)
            /\ last' = Response("deleteFileUnlink", d.userId, getUserRole(d.userId),
                                d.fileId, NULL, "ok")
       ELSE \* the log insert fails on the foreign key, in the try and in the catch
            /\ last' = Response("deleteFileUnlink", d.userId, "none", d.fileId, NULL,
                                "InternalError")
            /\ UNCHANGED logs

\* getDownloadFileInfo (logSuccess) and getPreviewFileInfo (no success log)
getFileInfo(op, logSuccess, tok, fileId) ==
    /\ FileFrame
    /\ UNCHANGED <<files, disk, nextFileId, nextName, uploading, unlinking>>
    /\ LET userId == getUserIdFromSession(tok)
           userRole == getUserRole(userId)
           reply(result) == Response(op, userId, userRole, fileId, NULL, result)
       IN  IF userId = NULL
           THEN last' = reply("AuthenticationRequired") /\ UNCHANGED logs
           ELSE IF fileId \notin DOMAIN files
           THEN last' = reply("NotFound") /\ UNCHANGED logs
           ELSE IF InfoDenied(files[fileId], userId, userRole)
           THEN /\ Insert(<<LogEntry(userId, "File Access Denied",
                                                 "security", fileId)>>)
                /\ last' = reply("Forbidden")
           ELSE IF Resolve(files[fileId].path) \notin disk
           THEN /\ Insert(<<LogEntry(userId, "File Data Missing",
                                                 "system", fileId)>>)
                /\ last' = reply("DataMissing")
           ELSE /\ IF logSuccess
                   THEN Insert(<<LogEntry(userId, "File Download", "file", fileId)>>)
                   ELSE UNCHANGED logs
                /\ last' = ResponseWith(op, userId, userRole, fileId, NULL, "ok",
                                        files[fileId].path)

getDownloadFileInfo(tok, fileId) == getFileInfo("getDownloadFileInfo", TRUE, tok, fileId)
getPreviewFileInfo(tok, fileId) == getFileInfo("getPreviewFileInfo", FALSE, tok, fileId)

(* ------------------------ the file-serving route ---------------------- *)
\* path.join('uploads', ...params.filepath)
RelativePath(filepath) == Normalize(<<UploadsSeg>> \o filepath)
\* !resolvedPath.startsWith(uploadDirResolved)
OutsideUploads(resolvedPath) ==
    ~startsWith(PathString(resolvedPath), PathString(Resolve(<<UploadsSeg>>)))
\* SELECT ... FROM files WHERE path = ?
FileByPath(relativePath) == {f \in DOMAIN files : files[f].path = relativePath}

GET(tok, filepath, isPreview) ==
    /\ FileFrame
    /\ UNCHANGED <<files, disk, nextFileId, nextName, uploading, unlinking>>
    /\ LET userId == getUserIdFromSession(tok)
           relativePath == RelativePath(filepath)
           resolvedPath == Resolve(Normalize(relativePath))
           found == FileByPath(relativePath)
           userRole == getUserRole(userId)
           reply(fid, result) == Response("GET", userId, userRole, fid,
                                          <<filepath, isPreview>>, result)
       IN  IF userId = NULL
           THEN last' = reply(NULL, "Unauthorized") /\ UNCHANGED logs
           ELSE IF OutsideUploads(resolvedPath)
           THEN /\ Insert(<<LogEntry(userId, "Path Traversal Attempt",
                                                 "security", NULL)>>)
                /\ last' = reply(NULL, "Forbidden")
           ELSE IF found = {}
           THEN /\ Insert(<<LogEntry(userId, "File Access Error",
                                                 "file", NULL)>>)
                /\ last' = reply(NULL, "NotFound")
           ELSE LET id == CHOOSE f \in found : TRUE
                    fileRecord == files[id]
                IN  IF RouteDenied(fileRecord, userId, userRole)
                    THEN /\ Insert(<<LogEntry(userId, "File Access Denied",
                                                          "security", id)>>)
                         /\ last' = reply(id, "Forbidden")
                    ELSE IF Resolve(fileRecord.path) \notin disk
                    THEN /\ Insert(<<LogEntry(userId, "File Access Error",
                                                          "system", id)>>)
                         /\ last' = reply(id, "DataMissing")
                    ELSE /\ Insert(<<LogEntry(userId,
                                IF isPreview THEN "File Preview" ELSE "File Download",
                                "file", id)>>)
                         /\ last' = ResponseWith("GET", userId, userRole, id,
                                                 <<filepath, isPreview>>, "ok",
                                                 Resolve(fileRecord.path))

\* variant: the handler has no catch around its reads
ServeErrorUncaught == "Unhandled"
\* the route's catch: logs 'File Access Error' and answers 500
ServeError == "InternalError"
\* fs.unlink of a deleteFile in flight works on a pool thread and may remove
\* the bytes between fs.existsSync and fs.readFileSync of the route
UnlinkPending(absolutePath) == \E d \in unlinking : Resolve(d.path) = absolutePath

\* GET as far as `await getUserRole(userId)`: the handler has read the files
\* row and other callbacks may run before it resumes
GETAwaitRole(tok, filepath, isPreview) ==
    /\ UNCHANGED <<users, sessions, settings, now, notifications, nextUserId, nextToken>>
    /\ UNCHANGED <<files, disk, nextFileId, nextName, uploading, unlinking>>
    /\ LET userId == getUserIdFromSession(tok)
           relativePath == RelativePath(filepath)
           resolvedPath == Resolve(Normalize(relativePath))
           found == FileByPath(relativePath)
           reply(fid, result) == Response("GET", userId, getUserRole(userId), fid,
                                          <<filepath, isPreview>>, result)
       IN  IF userId = NULL
           THEN last' = reply(NULL, "Unauthorized") /\ UNCHANGED <<logs, serving>>
           ELSE IF OutsideUploads(resolvedPath)
           THEN /\ Insert(<<LogEntry(userId, "Path Traversal Attempt",
                                                 "security", NULL)>>)
                /\ last' = reply(NULL, "Forbidden")
                /\ UNCHANGED serving
           ELSE IF found = {}
           THEN /\ Insert(<<LogEntry(userId, "File Access Error",
                                                 "file", NULL)>>)
                /\ last' = reply(NULL, "NotFound")
                /\ UNCHANGED serving
           ELSE LET id == CHOOSE f \in found : TRUE
                IN  /\ Cardinality(serving) < MaxInFlight
                    /\ serving' = serving \cup
                           {[userId |-> userId, id |-> id, fileRecord |-> files[id],
                             filepath |-> filepath, isPreview |-> isPreview]}
                    /\ last' = reply(id, "awaiting")
                    /\ UNCHANGED logs

\* GET from the permission check on, with the files row read before the await
GETResume(r) ==
    /\ r \in serving
    /\ serving' = serving \ {r}
    /\ UNCHANGED <<users, sessions, settings, now, notifications, nextUserId, nextToken>>
    /\ UNCHANGED <<files, disk, nextFileId, nextName, uploading, unlinking>>
    /\ LET userRole == getUserRole(r.userId)
           absolutePath == Resolve(r.fileRecord.path)
           reply(result) == Response("GET", r.userId, userRole, r.id,
                                     <<r.filepath, r.isPreview>>, result)
       IN  IF r.userId \notin DOMAIN users
           THEN \* every branch inserts a logs row for userId and so does the
                \* catch: the foreign key error leaves the handler
                last' = reply("Unhandled") /\ UNCHANGED logs
           ELSE IF RouteDenied(r.fileRecord, r.userId, userRole)
           THEN /\ Insert(<<LogEntry(r.userId, "File Access Denied", "security", r.id)>>)
                /\ last' = reply("Forbidden")
           ELSE IF absolutePath \notin disk
           THEN /\ Insert(<<LogEntry(r.userId, "File Access Error", "system", r.id)>>)
                /\ last' = reply("DataMissing")
           ELSE \/ /\ Insert(<<LogEntry(r.userId,
                           IF r.isPreview THEN "File Preview" ELSE "File Download",
                           "file", r.id)>>)
                   /\ last' = ResponseWith("GET", r.userId, userRole, r.id,
                                           <<r.filepath, r.isPreview>>, "ok", absolutePath)
                \/ /\ UnlinkPending(absolutePath)
                   \* fs.readFileSync throws ENOENT
                   /\ Insert(<<LogEntry(r.userId, "File Access Error", "system", NULL)>>)
                   /\ last' = reply(ServeError)

(* ------------------------- read-only actions ------------------------- *)
ReadFrame ==
    UNCHANGED <<users, sessions, files, settings, logs, disk, now, notifications,
                serving, nextUserId,
                nextToken, nextFileId, nextName, uploading, unlinking>>

\* listFiles as a request: the rows the query returns
ListFiles(tok, isAdminView) ==
    /\ ReadFrame
    /\ LET userId == getUserIdFromSession(tok)
       IN  IF userId = NULL
           THEN last' = Response("listFiles", NULL, "none", NULL, isAdminView,
                                 "AuthenticationRequired")
           ELSE last' = ResponseWith("listFiles", userId, getUserRole(userId), NULL,
                                     isAdminView, "ok", <<listFiles(userId, isAdminView)>>)

\* getSettings and getLogs: an admin gets the rows, anybody else is turned
\* away without a log row
AdminRead(op, tok, rows) ==
    /\ ReadFrame
    /\ LET adminUser == getUserFromSession(tok)
       IN  IF adminUser = NoUser
           THEN last' = Response(op, NULL, "none", NULL, NULL, "AuthenticationRequired")
           ELSE IF adminUser.role # "admin"
           THEN last' = Response(op, adminUser.id, adminUser.role, NULL, NULL,
                                 "PermissionDenied")
           ELSE last' = ResponseWith(op, adminUser.id, adminUser.role, NULL, NULL, "ok",
                                     <<rows>>)
getSettings(tok) == AdminRead("getSettings", tok, settings)
getLogs(tok) == AdminRead("getLogs", tok, logs)

\* getSystemStats: one answer for no session and for a non-admin
getSystemStats(tok) ==
    /\ ReadFrame
    /\ LET adminUser == getUserFromSession(tok)
       IN  IF adminUser = NoUser \/ adminUser.role # "admin"
           THEN last' = Response("getSystemStats", adminUser.id, adminUser.role, NULL,
                                 NULL, "PermissionDenied")
           ELSE last' = ResponseWith("getSystemStats", adminUser.id, adminUser.role,
                                     NULL, NULL, "ok",
                                     <<Cardinality(DOMAIN users),
                                       Cardinality(DOMAIN files), Len(logs)>>)

(* ---------------------------- notifications -------------------------- *)
\* createNotification: no session is looked up; the insert for a user_id
\* without a users row fails on the foreign key and the error is swallowed
createNotification(userId) ==
    /\ notifications' = IF userId \in DOMAIN users
                        THEN notifications \cup {userId}
                        ELSE notifications
    /\ last' = Response("createNotification", NULL, "none", userId, NULL, "ok")
    /\ UNCHANGED <<users, sessions, files, settings, logs, disk, now, serving,
                   nextUserId, nextToken, nextFileId, nextName, uploading, unlinking>>

\* the response leaves the server
Return ==
    /\ last # Idle
    /\ last' = Idle
    /\ UNCHANGED <<users, sessions, files, settings, logs, disk, now, notifications, serving,
                   nextUserId, nextToken, nextFileId, nextName, uploading, unlinking>>

(* ------------------------------ the system ---------------------------- *)
\* the cookies a request can carry: none, or a token handed out earlier
Cookies == 0..(nextToken - 1)

Next ==
    \/ /\ Ready
       /\ \E d \in {HalfDay, MinutesPerDay} : Tick(d)
       /\ Within(MaxLog)
    \/ /\ Ready
       /\ \E tok \in Cookies : VerifySession(tok)
       /\ Within(MaxLog)
    \/ /\ Ready
       /\ \E username \in Usernames, password \in Passwords : loginUser(username, password)
       /\ Within(MaxLog)
    \/ /\ Ready
       /\ \E tok \in Cookies : logoutUser(tok)
       /\ Within(MaxLog)
    \/ /\ Ready
       /\ \E tok \in Cookies, username \in Usernames, role \in Roles :
               registerUser(tok, username, "secret", role)
       /\ Within(MaxLog)
    \/ /\ Ready
       /\ \E tok \in Cookies, u \in UserIds, status \in Statuses :
               updateUserStatus(tok, u, status)
       /\ Within(MaxLog)
    \/ /\ Ready
       /\ \E tok \in Cookies, u \in UserIds, password \in Passwords :
               resetUserPassword(tok, u, password)
       /\ Within(MaxLog)
    \/ /\ Ready
       /\ \E tok \in Cookies, u \in UserIds, role \in Roles : updateUserProfile(tok, u, role)
       /\ Within(MaxLog)
    \/ /\ Ready
       /\ \E tok \in Cookies, u \in UserIds : deleteUser(tok, u)
       /\ Within(MaxLog)
    \/ /\ Ready
       /\ \E tok \in Cookies, old \in Passwords, new \in Passwords :
               updateOwnProfile(tok, old, new)
       /\ Within(MaxLog)
    \/ /\ Ready
       /\ \E tok \in Cookies, key \in DOMAIN SettingValues :
               \E value \in SettingValues[key] : updateSettings(tok, key, value)
       /\ Within(MaxLog)
    \/ /\ Ready
       /\ \E tok \in Cookies, ext \in Extensions, size \in FileSizes, v \in Visibilities :
               uploadFile(tok, ext, size, v)
       /\ Within(MaxLog)
    \/ /\ Ready
       /\ \E u \in uploading : uploadFileInsert(u)
       /\ Within(MaxLog)
    \/ /\ Ready
       /\ \E tok \in Cookies, f \in FileIds, v \in Visibilities :
               toggleFileVisibility(tok, f, v)
       /\ Within(MaxLog)
    \/ /\ Ready
       /\ \E tok \in Cookies, f \in FileIds : deleteFile(tok, f)
       /\ Within(MaxLog)
    \/ /\ Ready
       /\ \E d \in unlinking : deleteFileUnlink(d)
       /\ Within(MaxLog)
    \/ /\ Ready
       /\ \E tok \in Cookies, f \in FileIds : getDownloadFileInfo(tok, f)
       /\ Within(MaxLog)
    \/ /\ Ready
       /\ \E tok \in Cookies, f \in FileIds : getPreviewFileInfo(tok, f)
       /\ Within(MaxLog)
    \/ /\ Ready
       /\ \E tok \in Cookies, filepath \in RequestPaths, isPreview \in BOOLEAN :
               GET(tok, filepath, isPreview)
       /\ Within(MaxLog)
    \/ /\ Ready
       /\ \E tok \in Cookies, isAdminView \in BOOLEAN : ListFiles(tok, isAdminView)
       /\ Within(MaxLog)
    \/ /\ Ready
       /\ \E tok \in Cookies : getSettings(tok)
       /\ Within(MaxLog)
    \/ /\ Ready
       /\ \E tok \in Cookies : getLogs(tok)
       /\ Within(MaxLog)
    \/ /\ Ready
       /\ \E tok \in Cookies : getSystemStats(tok)
       /\ Within(MaxLog)
    \/ Return

Spec == Init /\ [][Next]_vars

\* The route and the deletion of files, interleaved at their awaits
NextServe ==
    \/ /\ Ready
       /\ \E tok \in Cookies \ {NoToken}, filepath \in RequestPaths, isPreview \in BOOLEAN :
               GETAwaitRole(tok, filepath, isPreview)
       /\ Within(MaxLedgerLog)
    \/ /\ Ready
       /\ \E r \in serving : GETResume(r)
       /\ Within(MaxLedgerLog)
    \/ /\ Ready
       /\ \E tok \in Cookies \ {NoToken}, f \in FileIds : deleteFile(tok, f)
       /\ Within(MaxLedgerLog)
    \/ /\ Ready
       /\ \E d \in unlinking : deleteFileUnlink(d)
       /\ Within(MaxLedgerLog)
    \/ Return

SpecServe == Init /\ [][NextServe]_vars

\* the changes of name and address an admin asks for
ProfileUpdates ==
    {[username |-> "root"], [email |-> Email("root")],
     [username |-> "root", email |-> Email("root")]}

\* Restarts of the process between changes of profiles and of settings
NextSeed ==
    \/ /\ Ready
       /\ seedData
       /\ Within(MaxLedgerLog)
    \/ /\ Ready
       /\ \E tok \in Cookies \ {NoToken}, u \in DOMAIN InitUsers, updates \in ProfileUpdates :
               updateUserProfileWith(tok, u, updates)
       /\ Within(MaxLedgerLog)
    \/ /\ Ready
       /\ \E tok \in Cookies \ {NoToken}, key \in DOMAIN SettingValues :
               \E value \in SettingValues[key] : updateSettings(tok, key, value)
       /\ Within(MaxLedgerLog)
    \/ Return

SpecSeed == Init /\ [][NextSeed]_vars

\* The management of the accounts by the admins under the sessions they
\* hold, up to MaxRoleLog rows
NextAdmins ==
    \/ /\ Ready
       /\ \E tok \in Cookies \ {NoToken}, u \in DOMAIN InitUsers, status \in Statuses :
               updateUserStatus(tok, u, status)
       /\ Within(MaxRoleLog)
    \/ /\ Ready
       /\ \E tok \in Cookies \ {NoToken}, u \in DOMAIN InitUsers, role \in Roles :
               updateUserProfile(tok, u, role)
       /\ Within(MaxRoleLog)
    \/ /\ Ready
       /\ \E tok \in Cookies \ {NoToken}, u \in DOMAIN InitUsers : deleteUser(tok, u)
       /\ Within(MaxRoleLog)
    \/ Return

SpecAdmins == Init /\ [][NextAdmins]_vars

\* The ledger at depth: logins, visibility toggles, the management of the
\* accounts and the maintenance switch only, up to MaxLedgerLog rows
NextLedger ==
    \/ /\ Ready
       /\ \E u \in DOMAIN InitUsers : createNotification(u)
       /\ Within(MaxLedgerLog)
    \/ /\ Ready
       /\ \E tok \in Cookies \ {NoToken}, role \in Roles :
               registerUser(tok, "bob", "secret", role)
       /\ Within(MaxLedgerLog)
    \/ /\ Ready
       /\ \E tok \in Cookies \ {NoToken}, u \in DOMAIN InitUsers, status \in Statuses :
               updateUserStatus(tok, u, status)
       /\ Within(MaxLedgerLog)
    \/ /\ Ready
       /\ \E password \in Passwords : loginUser("alice", password)
       /\ Within(MaxLedgerLog)
    \/ /\ Ready
       /\ \E tok \in Cookies \ {NoToken}, f \in FileIds, v \in Visibilities :
               toggleFileVisibility(tok, f, v)
       /\ Within(MaxLedgerLog)
    \/ /\ Ready
       /\ \E tok \in Cookies \ {NoToken}, u \in DOMAIN InitUsers, role \in Roles :
               updateUserProfile(tok, u, role)
       /\ Within(MaxLedgerLog)
    \/ /\ Ready
       /\ \E tok \in Cookies \ {NoToken}, u \in DOMAIN InitUsers : deleteUser(tok, u)
       /\ Within(MaxLedgerLog)
    \/ /\ Ready
       /\ \E tok \in Cookies \ {NoToken}, value \in SettingValues.maintenanceMode :
               updateSettings(tok, "maintenanceMode", value)
       /\ Within(MaxLedgerLog)
    \/ Return

SpecLedger == Init /\ [][NextLedger]_vars

\* The admin-only operations at depth: each of them requested under the
\* sessions of the seed admin and of alice while alice's role and status
\* change, up to MaxRoleLog rows
NextRoles ==
    \/ /\ Ready
       /\ \E tok \in Cookies \ {NoToken} : registerUser(tok, "bob", "secret", "user")
       /\ Within(MaxRoleLog)
    \/ /\ Ready
       /\ \E tok \in Cookies \ {NoToken}, status \in Statuses :
               updateUserStatus(tok, 2, status)
       /\ Within(MaxRoleLog)
    \/ /\ Ready
       /\ \E tok \in Cookies \ {NoToken} : resetUserPassword(tok, SeedAdminId, "secret")
       /\ Within(MaxRoleLog)
    \/ /\ Ready
       /\ \E tok \in Cookies \ {NoToken}, role \in Roles : updateUserProfile(tok, 2, role)
       /\ Within(MaxRoleLog)
    \/ /\ Ready
       /\ \E tok \in Cookies \ {NoToken}, u \in DOMAIN InitUsers : deleteUser(tok, u)
       /\ Within(MaxRoleLog)
    \/ /\ Ready
       /\ \E tok \in Cookies \ {NoToken}, value \in SettingValues.maintenanceMode :
               updateSettings(tok, "maintenanceMode", value)
       /\ Within(MaxRoleLog)
    \/ /\ Ready
       /\ \E tok \in Cookies \ {NoToken} : getLogs(tok)
       /\ Within(MaxRoleLog)
    \/ Return

SpecRoles == Init /\ [][NextRoles]_vars

\* The logins at depth: alice's stored digest is a sha256 digest or one of
\* another length; logins under every name and password while the status of
\* alice and the maintenance switch change, up to MaxLedgerLog rows
InitLogin ==
    \E d \in {hashPassword("secret"), LegacyDigest("secret")} :
        InitWith([InitUsers EXCEPT ![2].password_hash = d])

NextLogin ==
    \/ /\ Ready
       /\ \E username \in Usernames, password \in Passwords : loginUser(username, password)
       /\ Within(MaxLedgerLog)
    \/ /\ Ready
       /\ \E tok \in Cookies \ {NoToken}, status \in Statuses :
               updateUserStatus(tok, 2, status)
       /\ Within(MaxLedgerLog)
    \/ /\ Ready
       /\ \E tok \in Cookies \ {NoToken}, value \in SettingValues.maintenanceMode :
               updateSettings(tok, "maintenanceMode", value)
       /\ Within(MaxLedgerLog)
    \/ /\ Ready
       /\ \E tok \in Cookies \ {NoToken}, old \in Passwords, new \in Passwords :
               updateOwnProfile(tok, old, new)
       /\ Within(MaxLedgerLog)
    \/ Return

SpecLogin == InitLogin /\ [][NextLogin]_vars

\* The sessions at depth: the clock, logins of alice, logouts, session
\* lookups, password resets and changes of the session timeout, up to
\* MaxSessionLog rows
SessionTimeouts == {5, MinutesPerDay}

NextSession ==
    \/ /\ Ready
       /\ \E d \in {HalfDay, MinutesPerDay} : Tick(d)
       /\ Within(MaxSessionLog)
    \/ /\ Ready
       /\ loginUser("alice", "secret")
       /\ Within(MaxSessionLog)
    \/ /\ Ready
       /\ \E tok \in Cookies \ {NoToken} : logoutUser(tok)
       /\ Within(MaxSessionLog)
    \/ /\ Ready
       /\ \E tok \in Cookies \ {NoToken} : VerifySession(tok)
       /\ Within(MaxSessionLog)
    \/ /\ Ready
       /\ \E tok \in Cookies \ {NoToken} : resetUserPassword(tok, 2, "secret")
       /\ Within(MaxSessionLog)
    \/ /\ Ready
       /\ \E tok \in Cookies \ {NoToken}, value \in SessionTimeouts :
               updateSettings(tok, "sessionTimeoutMinutes", value)
       /\ Within(MaxSessionLog)
    \/ /\ Ready
       /\ \E tok \in Cookies \ {NoToken} : ListFiles(tok, FALSE)
       /\ Within(MaxSessionLog)
    \/ Return

SpecSession == Init /\ [][NextSession]_vars

(* ------------------------------ properties ---------------------------- *)
\* C1: once the clock is past a session's stored expiry, verifySession and
\* every per-request session lookup treat the token as absent.
C1_ExpiredSessionIsAbsent ==
    \A tok \in DOMAIN sessions :
        ParseDate(sessions[tok].expires_at) < now =>
            /\ verifySessionResult(tok) = NULL
            /\ getUserIdFromSession(tok) = NULL
            /\ getUserFromSession(tok) = NoUser

\* C2: the route and the download/preview info actions hand a file (its
\* bytes, its info) to an authenticated actor only if the file is public, the
\* actor is its uploader or the actor is an admin; every other request for an
\* existing file is answered Forbidden, without a body.
C2_ReadOnlyPublicOwnerAdmin ==
    (last.op \in {"GET", "getDownloadFileInfo", "getPreviewFileInfo"}
        /\ last.uid # NULL) =>
        /\ last.body # NoBody => last.arg \in DOMAIN files
        /\ last.arg \in DOMAIN files =>
            LET f == files[last.arg]
                allowed == \/ f.visibility = "public"
                           \/ f.uploader_id = last.uid
                           \/ getUserRole(last.uid) = "admin"
            IN  /\ last.body # NoBody => allowed
                /\ ~allowed => last.result = "Forbidden" /\ last.body = NoBody

\* C2 happens: a non-admin is refused a private file whose owner was deleted
C2_Witness ==
    /\ last.op = "GET"
    /\ last.result = "Forbidden"
    /\ last.uid # NULL
    /\ getUserRole(last.uid) = "user"
    /\ last.arg \in DOMAIN files
    /\ files[last.arg].visibility = "private"
    /\ files[last.arg].uploader_id = NULL

\* C3: a successful resetUserPassword for user U removes every session of U
\* and leaves every other session as it was; a token without a session row
\* never gets one again, so U's old tokens resolve to absent from then on.
C3_ResetRevokesEverySession ==
    [][/\ (last'.op = "resetUserPassword" /\ last'.result = "ok") =>
            \A t \in DOMAIN sessions :
                IF sessions[t].user_id = last'.arg
                THEN t \notin DOMAIN sessions'
                ELSE t \in DOMAIN sessions' /\ sessions'[t] = sessions[t]
       /\ \A t \in Tokens :
            (t < nextToken /\ t \notin DOMAIN sessions) => t \notin DOMAIN sessions'
      ]_vars

\* C3 happens: a reset ended the target's sessions while another user's stays
C3_Witness ==
    /\ last.op = "resetUserPassword"
    /\ last.result = "ok"
    /\ \E i \in 1..Len(logs) :
            logs[i].action = "Session Termination" /\ logs[i].resource_id = last.arg
    /\ \E t \in DOMAIN sessions : sessions[t].user_id # last.arg

\* C4: after an admin has set a user's status to inactive, no session of that
\* user resolves to a user any more.
C4_DeactivationDestroysSessions ==
    (last.op = "updateUserStatus" /\ last.result = "ok" /\ last.val = "inactive") =>
        \A t \in DOMAIN sessions :
            sessions[t].user_id = last.arg =>
                getUserIdFromSession(t) = NULL /\ getUserFromSession(t) = NoUser

\* C5: while maintenanceMode is "true", no file operation requested by an
\* actor who is not an admin is served.
C5_MaintenanceDeniesNonAdmins ==
    (/\ settings.maintenanceMode = "true"
     /\ last.op \in {"uploadFile", "toggleFileVisibility", "deleteFile",
                     "getDownloadFileInfo", "getPreviewFileInfo", "GET"}
     /\ last.uid # NULL
     /\ getUserRole(last.uid) # "admin") =>
        last.result \notin {"ok", "writing", "unlinking"}

\* C6 as stated: a toggle requested by anybody but the file's owner, an admin
\* included, is answered PermissionDenied and changes nothing.
C6_ToggleOnlyByOwner ==
    [][(/\ last'.op = "toggleFileVisibility"
        /\ last'.uid # NULL
        /\ last'.arg \in DOMAIN files
        /\ files[last'.arg].uploader_id # last'.uid) =>
            last'.result = "PermissionDenied" /\ files' = files
      ]_vars

\* C6 amended: toggleFileVisibility changes a file's visibility exactly when
\* the actor is the file's owner or an admin, and then sets the requested
\* value; a toggle by anybody else is answered PermissionDenied and changes
\* nothing.
C6_ToggleOnlyByOwnerOrAdmin ==
    [][last'.op = "toggleFileVisibility" =>
        IF last'.uid = NULL \/ last'.arg \notin DOMAIN files
        THEN files' = files
        ELSE IF \/ files[last'.arg].uploader_id = last'.uid
                \/ getUserRole(last'.uid) = "admin"
        THEN /\ last'.result = "ok"
             /\ files' = [files EXCEPT ![last'.arg].visibility = last'.val]
        ELSE /\ last'.result = "PermissionDenied"
             /\ files' = files
      ]_vars

\* C6 happens: a user who is neither the owner nor an admin is refused
C6_Witness ==
    /\ last.op = "toggleFileVisibility"
    /\ last.result = "PermissionDenied"
    /\ last.arg \in DOMAIN files
    /\ files[last.arg].uploader_id # last.uid
    /\ getUserRole(last.uid) = "user"
    /\ files[last.arg].visibility # last.val

\* C7: deleteFile requested by a non-admin A for a private file of another
\* user B is answered PermissionDenied; the files row, the bytes on disk and
\* B's listing keep the file, and the logs table gains exactly one row, of
\* type security, which records no file deletion.
C7_DeleteByStrangerDenied ==
    [][\A owner \in UserIds, f \in FileIds :
        (/\ last'.op = "deleteFile"
         /\ last'.uid # NULL
         /\ last'.arg = f
         /\ f \in DOMAIN files
         /\ files[f].visibility = "private"
         /\ files[f].uploader_id = owner
         /\ owner \in DOMAIN users
         /\ owner # last'.uid
         /\ getUserRole(last'.uid) # "admin") =>
            /\ last'.result = "PermissionDenied"
            /\ files' = files
            /\ disk' = disk
            /\ unlinking' = unlinking
            /\ listFiles(owner, FALSE)'[f] > 0
            /\ Len(logs') = Len(logs) + 1
            /\ SubSeq(logs', 1, Len(logs)) = logs
            /\ logs'[Len(logs')].type = "security"
            /\ logs'[Len(logs')].action # "File Deletion"
      ]_vars

\* C7 happens: a user was refused the deletion of an admin's private file
C7_Witness ==
    /\ last.op = "deleteFile"
    /\ last.result = "PermissionDenied"
    /\ getUserRole(last.uid) = "user"
    /\ files[last.arg].visibility = "private"
    /\ files[last.arg].uploader_id \in DOMAIN users
    /\ Resolve(files[last.arg].path) \in disk
    /\ logs # << >>
    /\ logs[Len(logs)].type = "security"

\* C8: a GET whose resolved path does not lie in the upload root directory (a
\* path into a sibling directory included) is answered Forbidden and logged
\* with one row of type security.
C8_OutsideUploadRootForbidden ==
    (/\ last.op = "GET"
     /\ last.uid # NULL
     /\ ~startsWith(Resolve(RelativePath(last.val[1])), Resolve(<<UploadsSeg>>))) =>
        /\ last.result = "Forbidden"
        /\ logs # << >>
        /\ logs[Len(logs)].type = "security"

\* C9: an upload by an authenticated actor whose size exceeds the
\* fileSizeLimitMB row in force is answered TooLarge, whatever its
\* extension; nothing is written to disk and no files row is created.
C9_OversizeUploadTooLarge ==
    [][(/\ last'.op = "uploadFile"
        /\ last'.uid # NULL
        /\ last'.val[1] > settings.fileSizeLimitMB * MB) =>
            /\ last'.result = "TooLarge"
            /\ disk' = disk
            /\ files' = files
            /\ uploading' = uploading
      ]_vars

\* C9 happens: under a limit lowered to 1 MB an upload that the default
\* limit admits, of a type that is not allowed, is answered TooLarge
C9_Witness ==
    /\ last.op = "uploadFile"
    /\ last.result = "TooLarge"
    /\ settings.fileSizeLimitMB = 1
    /\ last.val[1] <= DefaultSettings.fileSizeLimitMB * MB
    /\ last.val[2] = "exe"

\* C10: an upload that fails after its bytes were written leaves no file on
\* disk.
C10_FailedUploadLeavesNoFile ==
    (last.op = "uploadFileInsert" /\ last.result # "ok") =>
        Resolve(last.body) \notin disk

RECURSIVE SumOfSizes(_)
\* the bytes of the files rows ids
SumOfSizes(ids) ==
    IF ids = {} THEN 0
    ELSE LET f == CHOOSE x \in ids : TRUE
         IN  files[f].size + SumOfSizes(ids \ {f})
\* SUM(size) of the files rows of one uploader
StoredBytes(uid) == SumOfSizes({f \in DOMAIN files : files[f].uploader_id = uid})

\* C11: an upload that would take the uploader's stored bytes above the
\* storageQuotaMB row is rejected and stores nothing.
C11_QuotaEnforcedAtWrite ==
    [][(/\ last'.op = "uploadFile"
        /\ last'.uid # NULL
        /\ StoredBytes(last'.uid) + last'.val[1] > settings.storageQuotaMB * MB) =>
            /\ last'.result \notin {"ok", "writing"}
            /\ disk' = disk
            /\ files' = files
      ]_vars

\* C12: outside the admin all-files scope listFiles returns the caller's own
\* files and every public file of anybody else, a deleted owner's included,
\* each once, and no private file of another user; the all-files scope
\* returns every file, and only to an admin.
C12_ListingIsOwnPlusPublic ==
    (last.op = "listFiles" /\ last.result = "ok") =>
        LET rows == last.body[1]
        IN  /\ DOMAIN rows = DOMAIN files
            /\ \A f \in DOMAIN files :
                IF last.val /\ getUserRole(last.uid) = "admin"
                THEN rows[f] = 1
                ELSE rows[f] = IF \/ files[f].uploader_id = last.uid
                                  \/ files[f].visibility = "public"
                               THEN 1 ELSE 0

\* C13: a deletion whose files row is gone and whose bytes are unlinked
\* reports success also when its log row cannot be written.
C13_LogFailureDoesNotFailDeletion ==
    (/\ last.op = "deleteFileUnlink"
     /\ last.arg \notin DOMAIN files) =>
        last.result = "ok"

\* C14: every request of an authenticated actor that is denied for lack of
\* permission, for a path outside the upload root or for maintenance mode
\* appends one logs row of type security.
C14_DenialLogsSecurity ==
    [][(/\ last'.uid # NULL
        /\ last'.result \in {"PermissionDenied", "Forbidden", "Maintenance"}) =>
            /\ Len(logs') = Len(logs) + 1
            /\ logs'[Len(logs')].type = "security"
      ]_vars

\* C15: the audit ledger is append-only: no step removes a logs row or
\* changes a column of a row written earlier, whoever is deleted meanwhile.
C15_LedgerAppendOnly ==
    [][/\ Len(logs') >= Len(logs)
       /\ SubSeq(logs', 1, Len(logs)) = logs
      ]_vars

\* C16: the seed admin always exists with role admin; an admin who calls
\* deleteUser or updateUserProfile is still an admin account afterwards, and a
\* call that targets the seed admin or the caller to delete it or to give it
\* a non-admin role is refused.
C16_SeedAdminRemains ==
    /\ SeedAdminId \in DOMAIN users
    /\ users[SeedAdminId].role = "admin"
    /\ (last.op \in {"deleteUser", "updateUserProfile"} /\ last.role = "admin") =>
            /\ last.uid \in DOMAIN users
            /\ users[last.uid].role = "admin"
    /\ (last.op = "deleteUser" /\ last.role = "admin"
        /\ last.arg \in {SeedAdminId, last.uid}) => last.result = "ValidationError"
    /\ (last.op = "updateUserProfile" /\ last.role = "admin"
        /\ last.arg \in {SeedAdminId, last.uid} /\ last.val # "admin") =>
            last.result = "ValidationError"
\* an admin other than the seed admin was refused the seed admin's demotion
C16_Witness ==
    /\ last.op = "updateUserProfile"
    /\ last.uid # SeedAdminId
    /\ last.role = "admin"
    /\ last.arg = SeedAdminId
    /\ last.val = "user"
    /\ last.result = "ValidationError"

\* the admin-only operations
AdminOps ==
    {"registerUser", "updateUserStatus", "resetUserPassword", "updateUserProfile",
     "deleteUser", "updateSettings", "getLogs"}
\* C17: a request for an admin-only operation by an actor whose stored role
\* is user at the time of the request returns PermissionDenied without a
\* body and leaves users, sessions and settings unchanged; no step of such an
\* actor, whatever the operation, adds or removes an account or changes a
\* role, a status, another account's password or a setting.
C17_UserRoleDeniedAdminOps ==
    [][(last'.uid # NULL /\ getUserRole(last'.uid) = "user") =>
        /\ last'.op \in AdminOps =>
            /\ last'.result = "PermissionDenied"
            /\ last'.body = NoBody
            /\ UNCHANGED <<users, sessions, settings>>
        /\ DOMAIN users' = DOMAIN users
        /\ \A u \in DOMAIN users :
            /\ users'[u].role = users[u].role
            /\ users'[u].status = users[u].status
            /\ u # last'.uid => users'[u] = users[u]
        /\ settings' = settings
      ]_vars
\* alice changed a setting while she was an admin, was demoted since, and is
\* now denied an admin-only operation
C17_Witness ==
    /\ last.op \in AdminOps
    /\ last.uid = 2
    /\ last.role = "user"
    /\ last.result = "PermissionDenied"
    /\ \E i \in 1..Len(logs) : logs[i].user_id = 2 /\ logs[i].type = "admin"

\* the step is a request, other than a login, that carries the cookie tok
RequestWith(tok) ==
    \/ logoutUser(tok)
    \/ \E role \in Roles : registerUser(tok, "bob", "secret", role)
    \/ \E u \in UserIds, status \in Statuses : updateUserStatus(tok, u, status)
    \/ \E u \in UserIds, password \in Passwords : resetUserPassword(tok, u, password)
    \/ \E u \in UserIds, role \in Roles : updateUserProfile(tok, u, role)
    \/ \E u \in UserIds : deleteUser(tok, u)
    \/ \E old \in Passwords, new \in Passwords : updateOwnProfile(tok, old, new)
    \/ \E key \in DOMAIN SettingValues :
            \E value \in SettingValues[key] : updateSettings(tok, key, value)
    \/ \E ext \in Extensions, size \in FileSizes, v \in Visibilities :
            uploadFile(tok, ext, size, v)
    \/ \E f \in FileIds, v \in Visibilities : toggleFileVisibility(tok, f, v)
    \/ \E f \in FileIds : deleteFile(tok, f)
    \/ \E f \in FileIds : getDownloadFileInfo(tok, f)
    \/ \E f \in FileIds : getPreviewFileInfo(tok, f)
    \/ \E filepath \in RequestPaths, isPreview \in BOOLEAN : GET(tok, filepath, isPreview)
    \/ \E isAdminView \in BOOLEAN : ListFiles(tok, isAdminView)
    \/ getSettings(tok)
    \/ getLogs(tok)
    \/ getSystemStats(tok)
\* C18: a request other than a login whose cookie is no valid session (no
\* token, no sessions row, or a row whose expiry is past) is answered
\* AuthenticationRequired (401 Unauthorized by the route) and changes no
\* users, sessions, files or settings row and no stored bytes.
C18_NoSessionNoEffect ==
    [][\A tok \in 0..MaxToken :
        (verifySessionResult(tok) = NULL /\ RequestWith(tok)) =>
            /\ last'.result \in {"AuthenticationRequired", "Unauthorized"}
            /\ UNCHANGED <<users, sessions, files, settings, disk>>
      ]_vars

\* the logs row toggleFileVisibility writes for file f going from a to b
IsToggleRow(row, f, a, b) ==
    /\ row.action = "File Visibility Change"
    /\ row.type = "file"
    /\ row.resource_id = f
    /\ row.details = <<a, b>>
\* C19: a toggle that asks for the current visibility succeeds and changes
\* neither files nor logs; a toggle that asks for the other value changes the
\* visibility column of that row only and appends exactly one logs row; and
\* whenever the two latest logs rows are a toggle of a file from a to b and
\* then from b to a, the file's visibility is a again.
C19_ToggleTwiceRestores ==
    [][/\ (last'.op = "toggleFileVisibility" /\ last'.result = "ok") =>
            LET f == last'.arg
                v == last'.val
            IN  IF files[f].visibility = v
                THEN files' = files /\ logs' = logs
                ELSE /\ files' = [files EXCEPT ![f].visibility = v]
                     /\ Len(logs') = Len(logs) + 1
                     /\ SubSeq(logs', 1, Len(logs)) = logs
                     /\ IsToggleRow(logs'[Len(logs')], f, files[f].visibility, v)
       /\ (last'.op = "toggleFileVisibility" /\ last'.result # "ok") => files' = files
       /\ \A f \in DOMAIN files', a \in Visibilities, b \in Visibilities :
            (/\ Len(logs') >= 2
             /\ IsToggleRow(logs'[Len(logs') - 1], f, a, b)
             /\ IsToggleRow(logs'[Len(logs')], f, b, a)) =>
                files'[f].visibility = a
      ]_vars
\* a private file was made public and private again: two rows, the row as before
C19_Witness ==
    /\ last.op = "toggleFileVisibility"
    /\ last.result = "ok"
    /\ Len(logs) = 2
    /\ last.arg \in DOMAIN files
    /\ IsToggleRow(logs[1], last.arg, "private", "public")
    /\ IsToggleRow(logs[2], last.arg, "public", "private")
    /\ \E owner \in {SeedAdminId, 2, NULL} : files[last.arg] = InitFile(owner, "private")

\* what a logs row tells about the mode of an access: its action names a
\* preview or a download, or else whatever its details tell
ModeRecorded(row) ==
    IF row.action = "File Preview" THEN <<TRUE>>
    ELSE IF row.action = "File Download" THEN <<FALSE>>
    ELSE row.details
\* C20: when the route serves or denies a file, the logs row it appends
\* records the actor, the file id and whether the access was a preview or a
\* download.
C20_AccessRowRecordsMode ==
    (last.op = "GET" /\ last.arg # NULL /\ last.result \in {"ok", "Forbidden"}) =>
        /\ Len(logs) >= 1
        /\ logs[Len(logs)].user_id = last.uid
        /\ logs[Len(logs)].resource_id = last.arg
        /\ ModeRecorded(logs[Len(logs)]) = <<last.val[2]>>

\* C21: after deleteUser succeeds for a target, no sessions row and no
\* notifications row of the target remains and each token the target held
\* resolves to no user in every lookup, while every files row is still there,
\* the rows the target uploaded with uploader_id NULL and otherwise as before.
C21_DeleteUserCascades ==
    [][(last'.op = "deleteUser" /\ last'.result = "ok") =>
        /\ last'.arg \in DOMAIN users
        /\ last'.arg \notin DOMAIN users'
        /\ \A tok \in DOMAIN sessions' : sessions'[tok].user_id # last'.arg
        /\ last'.arg \notin notifications'
        /\ \A tok \in 1..MaxToken :
            (tok \in DOMAIN sessions /\ sessions[tok].user_id = last'.arg) =>
                /\ getUserIdFromSession(tok)' = NULL
                /\ getUserFromSession(tok)' = NoUser
                /\ verifySessionResult(tok)' = NULL
        /\ DOMAIN files' = DOMAIN files
        /\ \A f \in DOMAIN files :
            files'[f] = IF files[f].uploader_id = last'.arg
                        THEN [files[f] EXCEPT !.uploader_id = NULL]
                        ELSE files[f]
      ]_vars
\* alice, who had logged in a second time and owned the private file, was
\* deleted: only the admin's session and notification are left
C21_Witness ==
    /\ last.op = "deleteUser"
    /\ last.result = "ok"
    /\ last.arg = 2
    /\ \E i \in 1..Len(logs) :
        logs[i].action = "Login Success" /\ logs[i].resource_id = 2
    /\ nextToken = 4
    /\ DOMAIN sessions = {1}
    /\ notifications = {1}
    /\ 1 \in DOMAIN files
    /\ files[1] = InitFile(NULL, "private")

\* the login conditions: the username exists, the account is active, the
\* password's digest is the stored one, maintenance is off or the user an admin
MayLogin(username, password) ==
    \E u \in DOMAIN users :
        /\ users[u].username = username
        /\ users[u].status = "active"
        /\ users[u].password_hash = hashPassword(password)
        /\ settings.maintenanceMode # "true" \/ users[u].role = "admin"
\* C22: a loginUser call that meets the login conditions answers ok and adds
\* exactly one sessions row, for that user, leaving the other rows as they
\* were; a call that fails any of them answers an error and leaves sessions
\* unchanged.
C22_LoginCreatesOneSession ==
    [][\A username \in Usernames, password \in Passwords :
        loginUser(username, password) =>
            IF MayLogin(username, password)
            THEN /\ last'.result = "ok"
                 /\ Cardinality(DOMAIN sessions' \ DOMAIN sessions) = 1
                 /\ \A tok \in DOMAIN sessions : tok \in DOMAIN sessions'
                                                 /\ sessions'[tok] = sessions[tok]
                 /\ \A tok \in DOMAIN sessions' \ DOMAIN sessions :
                        /\ sessions'[tok].user_id \in DOMAIN users
                        /\ users[sessions'[tok].user_id].username = username
            ELSE /\ last'.result # "ok"
                 /\ sessions' = sessions
      ]_vars
\* the admin logged in while maintenance mode was on
C22_Witness ==
    /\ last.op = "loginUser"
    /\ last.result = "ok"
    /\ last.uid = SeedAdminId
    /\ settings.maintenanceMode = "true"
    /\ last.val \in DOMAIN sessions
    /\ sessions[last.val].user_id = SeedAdminId

\* C23: verifyPassword does not throw for a stored digest of another length
\* than a computed one, and a login to such an active account with any
\* password ends as InvalidCredentials.
C23_MalformedDigestIsMismatch ==
    (/\ last.op = "loginUser"
     /\ last.uid \in DOMAIN users
     /\ users[last.uid].status = "active"
     /\ DigestLength(users[last.uid].password_hash) # DigestLength(hashPassword("secret"))) =>
        /\ \A p \in Passwords : ~verifyPasswordThrows(p, users[last.uid].password_hash)
        /\ last.result = "InvalidCredentials"

C25_ExpiredRowDeletedOnLookup ==
    [][\A tok \in 1..MaxToken :
        (/\ tok \in DOMAIN sessions
         /\ ParseDate(sessions[tok].expires_at) < now
         /\ RequestWith(tok)) => tok \notin DOMAIN sessions'
      ]_vars

\* C26: toggles of one file by two callers who may change it, asking for
\* different values, leave the file with the value one of them asked for and
\* with every other column as it was: each successful toggle leaves the row
\* with the value it asked for and nothing else changed, and when the two
\* latest logs rows are changes of the same file by two different users, the
\* second started from the value the first wrote (neither update was lost)
\* and the file has the value the second wrote.
C26_ConcurrentTogglesSerialize ==
    [][/\ \A tok \in Cookies \ {NoToken}, f \in FileIds, v \in Visibilities :
            (toggleFileVisibility(tok, f, v) /\ last'.result = "ok") =>
                /\ ~ToggleDenied(files[f], getUserIdFromSession(tok),
                                 getUserRole(getUserIdFromSession(tok)))
                /\ DOMAIN files' = DOMAIN files
                /\ files'[f].visibility = v
                /\ \A g \in DOMAIN files :
                     files'[g] = [files[g] EXCEPT !.visibility = files'[g].visibility]
                /\ \A g \in DOMAIN files \ {f} : files'[g] = files[g]
       /\ \A f \in DOMAIN files' :
            (/\ Len(logs') >= 2
             /\ logs'[Len(logs') - 1].action = "File Visibility Change"
             /\ logs'[Len(logs')].action = "File Visibility Change"
             /\ logs'[Len(logs') - 1].resource_id = f
             /\ logs'[Len(logs')].resource_id = f
             /\ logs'[Len(logs') - 1].user_id # logs'[Len(logs')].user_id) =>
                /\ logs'[Len(logs')].details[1] = logs'[Len(logs') - 1].details[2]
                /\ files'[f].visibility = logs'[Len(logs')].details[2]
                /\ files'[f].visibility \in {logs'[Len(logs') - 1].details[2],
                                            logs'[Len(logs')].details[2]}
      ]_vars
\* the admin made alice's private file public and alice, with the other
\* value, made it private: the row is as it was at the start
C26_Witness ==
    /\ last.op = "toggleFileVisibility"
    /\ last.result = "ok"
    /\ last.uid = 2
    /\ last.val = "private"
    /\ Len(logs) = 2
    /\ logs[1].user_id = SeedAdminId
    /\ logs[2].user_id = 2
    /\ last.arg \in DOMAIN files
    /\ logs[1].action = "File Visibility Change" /\ logs[1].resource_id = last.arg
    /\ logs[2].action = "File Visibility Change" /\ logs[2].resource_id = last.arg
    /\ logs[1].details = <<"private", "public">>
    /\ logs[2].details = <<"public", "private">>
    /\ files[last.arg] = InitFile(2, "private")

\* C27: when a file is deleted while a read of the route that has found its
\* row and passes the permission check is in flight, the read answers with
\* the complete bytes or with an error response (not found, data missing,
\* internal error) and never leaves the handler by an exception, and the
\* deletion completes: it answers success and neither the row nor the bytes
\* remain.
C27_DeleteDuringReadIsSafe ==
    [][/\ \A r \in serving :
            (/\ GETResume(r)
             /\ ~RouteDenied(r.fileRecord, r.userId, getUserRole(r.userId))) =>
                /\ last'.result \in {"ok", "NotFound", "DataMissing", "InternalError"}
                /\ last'.result = "ok" =>
                      /\ last'.body = Resolve(r.fileRecord.path)
                      /\ last'.body \in disk
       /\ \A d \in unlinking :
            deleteFileUnlink(d) =>
                /\ last'.result = "ok"
                /\ d.fileId \notin DOMAIN files'
                /\ Resolve(d.path) \notin disk'
                /\ d \notin unlinking'
      ]_vars
\* the read found the row, the file was deleted before the read resumed, and
\* the read answered with an error response while the unlink was in flight
C27_Witness ==
    /\ last.op = "GET"
    /\ last.result = "InternalError"
    /\ last.arg \notin DOMAIN files
    /\ \E d \in unlinking : d.fileId = last.arg
    /\ serving = {}

\* C28: seedData run on a store that holds an admin account adds no users
\* row, also after the seed admin was renamed, and leaves every settings row
\* with the value it had.
C28_SeedingIdempotent ==
    [][(/\ seedData
        /\ \E u \in DOMAIN users : users[u].role = "admin") =>
            /\ DOMAIN users' = DOMAIN users
            /\ \A k \in DOMAIN settings : settings'[k] = settings[k]
      ]_vars

\* C29: in every reachable state some account has the role admin and the
\* status active.
C29_ActiveAdminExists ==
    \E u \in DOMAIN users : users[u].role = "admin" /\ users[u].status = "active"

\* the File Deletion rows of logs for file f
DeletionRows(table, f) ==
    {i \in 1..Len(table) : table[i].action = "File Deletion" /\ table[i].resource_id = f}
\* C30: of the deleteFile requests for one file made by its owner or by an
\* admin, one deletes the row, succeeds and appends the File Deletion row, and
\* each other request, arriving while the first unlinks or after it, answers
\* not found and writes nothing; once the deletions are over the row is
\* absent, no listing returns the file and the route finds no row and no
\* bytes for its path.
C30_ConcurrentDeletesOneSucceeds ==
    [][/\ \A tok \in Cookies \ {NoToken}, f \in FileIds :
            (/\ deleteFile(tok, f)
             /\ getUserIdFromSession(tok) # NULL
             /\ f \in DOMAIN files => ~DeleteDenied(files[f], getUserIdFromSession(tok),
                                           getUserRole(getUserIdFromSession(tok)))) =>
                IF f \in DOMAIN files
                THEN /\ last'.result = "unlinking"
                     /\ f \notin DOMAIN files'
                     /\ \A d \in unlinking : d.fileId # f
                     /\ \E d \in unlinking' : d.fileId = f
                ELSE /\ last'.result = "NotFound"
                     /\ unlinking' = unlinking
                     /\ logs' = logs
                     /\ files' = files
       /\ \A d \in unlinking :
            deleteFileUnlink(d) =>
                /\ last'.result = "ok"
                /\ Len(logs') = Len(logs) + 1
                /\ DeletionRows(logs', d.fileId) = {Len(logs')}
                /\ logs'[Len(logs')].user_id = d.userId
                /\ d.fileId \notin DOMAIN files'
                /\ \A u \in DOMAIN users, isAdminView \in BOOLEAN :
                     d.fileId \notin DOMAIN listFiles(u, isAdminView)'
                /\ FileByPath(d.path)' = {}
                /\ Resolve(d.path) \notin disk'
       /\ \A f \in FileIds :
            /\ Cardinality(DeletionRows(logs', f))
                 + Cardinality({d \in unlinking' : d.fileId = f}) <= 1
            /\ (DeletionRows(logs', f) # {} \/ \E d \in unlinking' : d.fileId = f) =>
                  f \notin DOMAIN files'
      ]_vars
\* while alice's deletion of her file awaits the unlink, the admin's deletion
\* of the same file was answered not found
C30_Witness ==
    /\ last.op = "deleteFile"
    /\ last.result = "NotFound"
    /\ last.uid = SeedAdminId
    /\ last.role = "admin"
    /\ \E d \in unlinking : d.fileId = last.arg /\ d.userId = 2
    /\ last.arg \notin DOMAIN files

====
